---- MODULE Spec2Model ----
(***************************************************************************)
(* A model of data/suica/osm/sfcardfan_osm.py: the name normalisers, the   *)
(* relation name matcher, the recursive stop resolver of OsmRelation and   *)
(* the row loop of read_osmdata.                                           *)
(*                                                                         *)
(* Text is a sequence of characters.  A printable ASCII character is the   *)
(* one-character string of itself ("J", "R", " "); any other character is  *)
(* the string "U" followed by its code point in hexadecimal, so '線'       *)
(* (U+7DDA) is "U7DDA".  Python's None is the value None below, which is   *)
(* different from every text.                                              *)
(***************************************************************************)
EXTENDS Integers, Sequences, FiniteSets, TLC

\* None where a text is expected, where an object is expected, and where a
\* list of identifiers is expected
None == << "None" >>
NoneRecord == [ none |-> TRUE ]
NoneIds == << -1 >>

(***************************************************************************)
(* The module's constants (lines 31-172).                                  *)
(***************************************************************************)
\* STATION = '駅'  (line 32)
STATION == <<"U99C5">>
\* INSIDE_STATION = '駅構内'  (line 33)
INSIDE_STATION == <<"U99C5", "U69CB", "U5185">>
\* HON = '本'  (line 35)
HON == <<"U672C">>
\* MAIN_LINE = '本線'  (line 36)
MAIN_LINE == <<"U672C", "U7DDA">>
\* LINE = '線'  (line 37)
LINE == <<"U7DDA">>
\* RAILWAY = '鉄道'  (line 39)
RAILWAY == <<"U9244", "U9053">>
\* RAILWAY_LINE = '鉄道線'  (line 40)
RAILWAY_LINE == <<"U9244", "U9053", "U7DDA">>
\* RAPID_LINE = '線快速'  (line 41)
RAPID_LINE == <<"U7DDA", "U5FEB", "U901F">>

\* ALT_NAMES (lines 44-123): key |-> list of alternates
ALT_NAMES ==
    \* '東海道本線': ['JR東北本線', 'JR京浜東北線', 'JR湘南新宿ライン', 'JR琵琶湖線']
       (<<"U6771", "U6D77", "U9053", "U672C", "U7DDA">> :> <<
        <<"J", "R", "U6771", "U5317", "U672C", "U7DDA">>,
        <<"J", "R", "U4EAC", "U6D5C", "U6771", "U5317", "U7DDA">>,
        <<"J", "R", "U6E58", "U5357", "U65B0", "U5BBF", "U30E9", "U30A4", "U30F3">>,
        <<"J", "R", "U7435", "U7436", "U6E56", "U7DDA">>
      >>)
    \* 'いわて銀河': ['アイジーアールいわて銀河鉄道いわて銀河鉄道線']
    @@ (<<"U3044", "U308F", "U3066", "U9280", "U6CB3">> :> <<
        <<"U30A2", "U30A4", "U30B8", "U30FC", "U30A2", "U30FC", "U30EB", "U3044", "U308F", "U3066", "U9280", "U6CB3", "U9244", "U9053", "U3044", "U308F", "U3066", "U9280", "U6CB3", "U9244", "U9053", "U7DDA">>
      >>)
    \* '阿佐': ['土佐くろしお鉄道阿佐線']
    @@ (<<"U963F", "U4F50">> :> <<
        <<"U571F", "U4F50", "U304F", "U308D", "U3057", "U304A", "U9244", "U9053", "U963F", "U4F50", "U7DDA">>
      >>)
    \* '中村': ['土佐くろしお鉄道中村線']
    @@ (<<"U4E2D", "U6751">> :> <<
        <<"U571F", "U4F50", "U304F", "U308D", "U3057", "U304A", "U9244", "U9053", "U4E2D", "U6751", "U7DDA">>
      >>)
    \* '鶴見': ['長堀鶴見緑地', 'JR鶴見線']
    @@ (<<"U9DB4", "U898B">> :> <<
        <<"U9577", "U5800", "U9DB4", "U898B", "U7DD1", "U5730">>,
        <<"J", "R", "U9DB4", "U898B", "U7DDA">>
      >>)
    \* '江差': ['道南いさりび鉄道線']
    @@ (<<"U6C5F", "U5DEE">> :> <<
        <<"U9053", "U5357", "U3044", "U3055", "U308A", "U3073", "U9244", "U9053", "U7DDA">>
      >>)
    \* '会津': ['会津鉄道会津線']
    @@ (<<"U4F1A", "U6D25">> :> <<
        <<"U4F1A", "U6D25", "U9244", "U9053", "U4F1A", "U6D25", "U7DDA">>
      >>)
    \* '赤羽': ['JR埼京線']
    @@ (<<"U8D64", "U7FBD">> :> <<
        <<"J", "R", "U57FC", "U4EAC", "U7DDA">>
      >>)
    \* '真岡': ['真岡鐵道真岡線']
    @@ (<<"U771F", "U5CA1">> :> <<
        <<"U771F", "U5CA1", "U9435", "U9053", "U771F", "U5CA1", "U7DDA">>
      >>)
    \* '天竜浜名湖': ['天竜浜名湖鉄道天竜浜名湖線']
    @@ (<<"U5929", "U7ADC", "U6D5C", "U540D", "U6E56">> :> <<
        <<"U5929", "U7ADC", "U6D5C", "U540D", "U6E56", "U9244", "U9053", "U5929", "U7ADC", "U6D5C", "U540D", "U6E56", "U7DDA">>
      >>)

\* JUNK_CHARS = '・'  (line 126): the characters of the string
JUNK_CHARS == <<"U30FB">>

\* IGNORED_LINE_PREFIXES (lines 128-131)
IGNORED_LINE_PREFIXES ==
    <<
        <<"J", "R", " ">>,   \* 'JR '
        <<"J", "R">>   \* 'JR'
    >>

\* IGNORED_LINE_SUFFIXES (lines 133-140)
IGNORED_LINE_SUFFIXES ==
    << MAIN_LINE, RAPID_LINE, RAILWAY_LINE, RAILWAY, HON, LINE >>

\* IGNORED_WORDS (lines 143-160)
IGNORED_WORDS ==
    <<
        <<"U8A66", "U9A13">>,   \* '試験'
        <<"T", "e", "s", "t">>,   \* 'Test'
        <<"U643A", "U5E2F", "U7AEF", "U672B">>,   \* '携帯端末'
        <<"S", "u", "i", "c", "a">>,   \* 'Suica'
        <<"U81E8", "U6642", "U7A93", "U53E3">>,   \* '臨時窓口'
        <<"U5929", "U7ADC", "U5DDD">>,   \* '天竜川'
        <<"U65B0", "U5C45", "U753A">>,   \* '新居町'
        <<"U897F", "U5C0F", "U5742", "U4E95">>,   \* '西小坂井'
        <<"U5E78", "U7530">>,   \* '幸田'
        <<"U540D", "U53E4", "U5C4B">>,   \* '名古屋'
        <<"U6E05", "U6D32">>,   \* '清洲'
        <<"U5C90", "U961C">>,   \* '岐阜'
        <<"U3075", "U308B", "U3055", "U3068", "U9280", "U6CB3">>   \* 'ふるさと銀河'
    >>

\* IGNORED_WORDS_EXACT (lines 162-172)
IGNORED_WORDS_EXACT ==
    <<
        <<"U5F66", "U6839">>,   \* '彦根'
        <<"U6CB3", "U702C">>,   \* '河瀬'
        <<"U6D25", "U8EFD">>,   \* '津軽'
        <<"U6D77", "U5CE1">>,   \* '海峡'
        <<"U6771", "U6D77", "U4EA4", "U901A", "U4E8B", "U696D">>,   \* '東海交通事業'
        <<"U80FD", "U767B">>,   \* '能登'
        <<"U5BAE", "U5CF6", "U822A", "U8DEF">>   \* '宮島航路'
    >>

(***************************************************************************)
(* The state.  Three machines share the module: the pure functions called  *)
(* one at a time, all_stop_ids step by step, and the loop of read_osmdata. *)
(* Each specification below runs one machine and leaves the variables of   *)
(* the other two at rest.  The variables of each are described with it.    *)
(***************************************************************************)
VARIABLES op, arg, argName, out1, out2,
          rels, nodeIds, start, stack, rpc, result, stopsOut, calls,
          db, last_company, last_line, last_rms, last_operator_info,
          row, company_name, line_name, station_name, outcome, emitted, scanned

normVars == << op, arg, argName, out1, out2 >>
resolverVars == << rels, nodeIds, start, stack, rpc, result, stopsOut, calls >>
driverVars ==
    << db, last_company, last_line, last_rms, last_operator_info,
       row, company_name, line_name, station_name, outcome, emitted, scanned >>
vars == << normVars, resolverVars, driverVars >>

(***************************************************************************)
(* Python's str operations, on sequences of characters.                    *)
(***************************************************************************)
\* s.startswith(p)
StartsWith(s, p) == Len(p) <= Len(s) /\ SubSeq(s, 1, Len(p)) = p

\* s.endswith(p)
EndsWith(s, p) == Len(p) <= Len(s) /\ SubSeq(s, Len(s) - Len(p) + 1, Len(s)) = p

\* s[n:]
DropFirst(s, n) == SubSeq(s, n + 1, Len(s))

\* s[:-n], for n > 0
DropLast(s, n) == SubSeq(s, 1, Len(s) - n)

\* w in s, for texts w and s
Contains(s, w) ==
    \E k \in 0 .. (Len(s) - Len(w)) : SubSeq(s, k + 1, k + Len(w)) = w

\* s.replace(c, ''), for one character c
RemoveChar(s, c) == SelectSeq(s, LAMBDA x : x # c)

\* x in l, for a list or tuple l
InList(x, l) == \E k \in 1 .. Len(l) : l[k] = x

(***************************************************************************)
(* clean_sf_station (lines 175-184).                                       *)
(***************************************************************************)
\* A variant of clean_sf_station that leaves the text as it is
clean_sf_station_asis(i) == i

clean_sf_station(i) ==
    IF EndsWith(i, STATION) THEN DropLast(i, Len(STATION))
    ELSE IF EndsWith(i, INSIDE_STATION) THEN DropLast(i, Len(INSIDE_STATION))
    ELSE i

(***************************************************************************)
(* clean_sf_line (lines 187-204), one definition per statement.            *)
(***************************************************************************)
\* lines 189-191: append LINE unless the text already ends with it
EnsureLine(i) == IF ~EndsWith(i, LINE) THEN i \o LINE ELSE i

\* lines 192-194: the loop over IGNORED_LINE_PREFIXES, from its k-th entry on.
\* The loop has no break: every entry is tried, on the text as stripped so far.
RECURSIVE StripPrefixesFrom(_, _)
StripPrefixesFrom(i, k) ==
    IF k > Len(IGNORED_LINE_PREFIXES) THEN i
    ELSE LET prefix == IGNORED_LINE_PREFIXES[k]
         IN  StripPrefixesFrom(
                 IF StartsWith(i, prefix) THEN DropFirst(i, Len(prefix)) ELSE i,
                 k + 1)

\* A variant of the prefix loop that tests the end of the text (endswith for
\* startswith), so that no prefix at the start is ever stripped
StripPrefixes_endswith(i) ==
    LET strip(t, prefix) == IF EndsWith(t, prefix) /\ StartsWith(t, prefix)
                            THEN DropFirst(t, Len(prefix)) ELSE t
    IN  strip(strip(i, IGNORED_LINE_PREFIXES[1]), IGNORED_LINE_PREFIXES[2])

\* A variant of the prefix loop that strips an entry as long as it matches
\* (while for if)
RECURSIVE StripPrefixes_while(_)
StripPrefixes_while(i) ==
    IF \E k \in 1 .. Len(IGNORED_LINE_PREFIXES) : StartsWith(i, IGNORED_LINE_PREFIXES[k])
    THEN LET k == CHOOSE j \in 1 .. Len(IGNORED_LINE_PREFIXES) :
                      /\ StartsWith(i, IGNORED_LINE_PREFIXES[j])
                      /\ \A h \in 1 .. (j - 1) : ~StartsWith(i, IGNORED_LINE_PREFIXES[h])
         IN  StripPrefixes_while(DropFirst(i, Len(IGNORED_LINE_PREFIXES[k])))
    ELSE i

StripPrefixes(i) == StripPrefixesFrom(i, 1)

\* lines 196-198: the loop over IGNORED_LINE_SUFFIXES, from its k-th entry on
RECURSIVE StripSuffixesFrom(_, _)
StripSuffixesFrom(i, k) ==
    IF k > Len(IGNORED_LINE_SUFFIXES) THEN i
    ELSE LET suffix == IGNORED_LINE_SUFFIXES[k]
         IN  StripSuffixesFrom(
                 IF EndsWith(i, suffix) THEN DropLast(i, Len(suffix)) ELSE i,
                 k + 1)

StripSuffixes(i) == StripSuffixesFrom(i, 1)

\* lines 200-202: the loop over the characters of JUNK_CHARS
RECURSIVE RemoveJunkFrom(_, _)
RemoveJunkFrom(i, k) ==
    IF k > Len(JUNK_CHARS) THEN i
    ELSE RemoveJunkFrom(RemoveChar(i, JUNK_CHARS[k]), k + 1)

RemoveJunk(i) == RemoveJunkFrom(i, 1)

clean_sf_line(i) == RemoveJunk(StripSuffixes(StripPrefixes(EnsureLine(i))))

(***************************************************************************)
(* OsmRelation.name_matches (lines 316-345).  name_matches_path is the     *)
(* statement at which the call ends: "L318", "L323", "L331", "L335" and    *)
(* "L342" are the return True statements, "L345" is return False, and      *)
(* "raise332" is the AttributeError of None.startswith at line 332, for a  *)
(* relation whose name_ja is None (from_xml, line 267, finds no name tag). *)
(***************************************************************************)
\* ALT_NAMES.get(v) (line 321)
ALT_NAMES_get(v) == IF v \in DOMAIN ALT_NAMES THEN ALT_NAMES[v] ELSE None

\* lines 328-335: the loop over IGNORED_LINE_PREFIXES from its k-th entry on;
\* name is the local variable, stripped so far.  The result is the return
\* statement taken, or "next" with the value of name the next loop reads.
RECURSIVE MatchPrefixesFrom(_, _, _, _)
MatchPrefixesFrom(name_ja, name, v, k) ==
    IF k > Len(IGNORED_LINE_PREFIXES) THEN [at |-> "next", name |-> name]
    ELSE LET prefix == IGNORED_LINE_PREFIXES[k]
             lp == Len(prefix)
         IN  IF StartsWith(v, prefix) /\ DropFirst(v, lp) = name_ja
             THEN [at |-> "L331", name |-> name]
             ELSE IF name = None
             THEN [at |-> "raise332", name |-> name]
             ELSE IF StartsWith(name, prefix)
             THEN IF v = DropFirst(name, lp)
                  THEN [at |-> "L335", name |-> DropFirst(name, lp)]
                  ELSE MatchPrefixesFrom(name_ja, DropFirst(name, lp), v, k + 1)
             ELSE MatchPrefixesFrom(name_ja, name, v, k + 1)

\* lines 337-342: the loop over IGNORED_LINE_SUFFIXES; name is never assigned
MatchSuffixes(name, v) ==
    \E k \in 1 .. Len(IGNORED_LINE_SUFFIXES) :
        LET suffix == IGNORED_LINE_SUFFIXES[k]
        IN  EndsWith(name, suffix) /\ v = DropLast(name, Len(suffix))

\* A variant of MatchAltNames that looks the relation's name up and searches
\* its alternates for v: the table read in the other direction
MatchAltNames_swapped(name_ja, v) ==
    LET alt_names == ALT_NAMES_get(name_ja)
    IN  alt_names # None /\ Len(alt_names) > 0 /\ InList(v, alt_names)

\* lines 321-322: alt_names and (self.name_ja in alt_names)
MatchAltNames(name_ja, v) ==
    LET alt_names == ALT_NAMES_get(v)
    IN  alt_names # None /\ Len(alt_names) > 0 /\ InList(name_ja, alt_names)

name_matches_path(name_ja, v) ==
    IF v = name_ja THEN "L318"
    ELSE IF MatchAltNames(name_ja, v) THEN "L323"
    ELSE LET p == MatchPrefixesFrom(name_ja, name_ja, v, 1)
         IN  IF p.at # "next" THEN p.at
             ELSE IF MatchSuffixes(p.name, v) THEN "L342"
             ELSE "L345"

\* The call's outcome: "True", "False" or the exception raised
name_matches(name_ja, v) ==
    LET at == name_matches_path(name_ja, v)
    IN  IF at = "raise332" THEN "AttributeError"
        ELSE IF at = "L345" THEN "False"
        ELSE "True"

(***************************************************************************)
(* Bounds and inputs of the pure functions.                                *)
(***************************************************************************)
\* An ordinary character, one that no rule looks at: '山'
ORDINARY == << "U5C71" >>

\* The texts made of at most n pieces
RECURSIVE PieceStrings(_, _)
PieceStrings(pieces, n) ==
    IF n = 0 THEN { << >> }
    ELSE LET S == PieceStrings(pieces, n - 1)
         IN  S \cup { s \o p : s \in S, p \in pieces }

ListItems(l) == { l[k] : k \in 1 .. Len(l) }

\* The pieces raw line names are made of
LinePieces ==
    ListItems(IGNORED_LINE_PREFIXES) \cup ListItems(IGNORED_LINE_SUFFIXES)
    \cup { << JUNK_CHARS[k] >> : k \in 1 .. Len(JUNK_CHARS) }
    \cup { ORDINARY }

\* The pieces relation names and normalised names are made of
NamePieces ==
    ListItems(IGNORED_LINE_PREFIXES) \cup ListItems(IGNORED_LINE_SUFFIXES)
    \cup { ORDINARY }

\* The pieces raw station names are made of
StationPieces == { STATION, INSIDE_STATION, ORDINARY }

MaxLinePieces == 3
MaxNamePieces == 2
MaxVPieces == 1
MaxStationPieces == 2

\* The texts of the scenario of the Yamanote line: 'JR山手線', '山手線',
\* 'JR山手', '山手' and, for the station, '新宿駅', '新宿'
YAMANOTE == << "U5C71", "U624B" >>
SHINJUKU == << "U65B0", "U5BBF" >>
ScenarioNames ==
    { << "J", "R" >> \o YAMANOTE \o LINE, YAMANOTE \o LINE,
      << "J", "R" >> \o YAMANOTE, YAMANOTE }

\* The names of the exception table: its keys and their alternates
AltKeys == DOMAIN ALT_NAMES
AltValues == UNION { ListItems(ALT_NAMES[k]) : k \in AltKeys }

LineInputs ==
    PieceStrings(LinePieces, MaxLinePieces) \cup AltKeys \cup AltValues
    \cup ScenarioNames
StationInputs ==
    PieceStrings(StationPieces, MaxStationPieces)
    \cup { SHINJUKU, SHINJUKU \o STATION, SHINJUKU \o INSIDE_STATION }

\* name_ja of a relation: None when the relation has no name tag
NameInputs ==
    PieceStrings(NamePieces, MaxNamePieces) \cup AltKeys \cup AltValues
    \cup ScenarioNames \cup { None }
VInputs ==
    PieceStrings(NamePieces, MaxVPieces) \cup AltKeys \cup AltValues
    \cup ScenarioNames

(***************************************************************************)
(* The pure functions as a state machine: the initial state holds the      *)
(* arguments of one call, an action makes the call and keeps its result.   *)
(*   op       "init", then the name of the call made                       *)
(*   arg      the text argument                                            *)
(*   argName  name_ja of the relation name_matches is called on, or Unset  *)
(*   out1     the first result, out2 the second (Unset before)             *)
(***************************************************************************)
Unset == << "unset" >>

NormInit ==
    /\ op = "init"
    /\ out1 = Unset
    /\ out2 = Unset
    /\ \/ arg \in LineInputs \cup StationInputs /\ argName = Unset
       \/ arg \in VInputs /\ argName \in NameInputs

\* line_name = clean_sf_line(row['line_name'])  (line 504)
DoCleanLine ==
    /\ op = "init" /\ argName = Unset
    /\ op' = "clean_sf_line"
    /\ out1' = clean_sf_line(arg)
    /\ UNCHANGED << arg, argName, out2 >>
    /\ UNCHANGED << resolverVars, driverVars >>

\* clean_sf_line applied to its own result
DoCleanLineAgain ==
    /\ op = "clean_sf_line"
    /\ op' = "clean_sf_line_twice"
    /\ out2' = clean_sf_line(out1)
    /\ UNCHANGED << arg, argName, out1 >>
    /\ UNCHANGED << resolverVars, driverVars >>

\* station_name = clean_sf_station(row['station_name'])  (line 505)
DoCleanStation ==
    /\ op = "init" /\ argName = Unset
    /\ op' = "clean_sf_station"
    /\ out1' = clean_sf_station(arg)
    /\ UNCHANGED << arg, argName, out2 >>
    /\ UNCHANGED << resolverVars, driverVars >>

\* m.name_matches(v): out1 is the outcome, out2 the statement it ends at
DoNameMatches ==
    /\ op = "init" /\ argName # Unset
    /\ op' = "name_matches"
    /\ out1' = name_matches(argName, arg)
    /\ out2' = << name_matches_path(argName, arg) >>
    /\ UNCHANGED << arg, argName >>
    /\ UNCHANGED << resolverVars, driverVars >>

\* m.name_matches(clean_sf_line(row['line_name']))  (lines 504, 527, 529):
\* out1 is the normalised name, out2 the outcome
DoCleanAndMatch ==
    /\ op = "init" /\ argName # Unset
    /\ op' = "clean_and_match"
    /\ out1' = clean_sf_line(arg)
    /\ out2' = << name_matches(argName, clean_sf_line(arg)) >>
    /\ UNCHANGED << arg, argName >>
    /\ UNCHANGED << resolverVars, driverVars >>

NormNext ==
    \/ DoCleanLine
    \/ DoCleanLineAgain
    \/ DoCleanStation
    \/ DoNameMatches
    \/ DoCleanAndMatch

(***************************************************************************)
(* OsmRelation.all_stop_ids, _lookup_stops and all_stops (lines 281-314),  *)
(* and the relations property (lines 348-357).  relations is db.relations, *)
(* a function from osm_id to relation; nodes is the set of the keys of     *)
(* db.nodes.                                                               *)
(***************************************************************************)
\* The recursion limit of line 286
MAX_DEPTH == 10

\* A variant of line 292 that calls the child without _current_depth, which
\* then takes its default
ChildDepth_default(_current_depth) == 0

\* line 292: the depth handed to the call on a child relation
ChildDepth(_current_depth) == _current_depth

\* lines 355-357 with line 291: the members of relation_ids that the relations
\* property yields as OsmRelation; the others are yielded as int and skipped
KnownRelations(relations, relation_ids) == relation_ids \cap DOMAIN relations

\* all_stop_ids as a function of the graph
RECURSIVE all_stop_ids(_, _, _)
all_stop_ids(relations, id, _current_depth) ==
    LET self == relations[id]
        depth == _current_depth + 1
    IN  IF depth > MAX_DEPTH THEN self.stop_ids
        ELSE self.stop_ids \cup
             UNION { all_stop_ids(relations, c, ChildDepth(depth)) :
                       c \in KnownRelations(relations, self.relation_ids) }

\* A variant of _lookup_stops that yields the identifier of an unknown stop in
\* place of a node, as the relations property does for an unknown relation
lookup_stops_or_id(nodes, stop_ids) == stop_ids

\* _lookup_stops (lines 296-301): the stops of db.nodes among stop_ids
lookup_stops(nodes, stop_ids) == { s \in stop_ids : s \in nodes }

\* all_stops (lines 312-314), as the set of the identifiers of the nodes
all_stops(relations, nodes, id) == lookup_stops(nodes, all_stop_ids(relations, id, 0))

(***************************************************************************)
(* all_stop_ids step by step: the call stack of the recursion.             *)
(*   rels, nodeIds  the graph                                              *)
(*   start          the relation all_stop_ids is called on                 *)
(*   stack          the frames: the relation, _current_depth after line    *)
(*                  284, stops, and the relation_ids the loop of line 290  *)
(*                  has still to visit (empty when line 288 returns)       *)
(*   rpc            "running", "returned" (all_stop_ids returned result),  *)
(*                  "looked_up" (all_stops resolved it to stopsOut)        *)
(*   calls          the number of calls of all_stop_ids made so far        *)
(***************************************************************************)
\* lines 283-288: the frame of a call made with the given _current_depth
NewFrame(id, _current_depth) ==
    LET depth == _current_depth + 1
    IN  [ rel |-> id,
          depth |-> depth,
          stops |-> rels[id].stop_ids,
          todo |-> IF depth > MAX_DEPTH THEN { } ELSE rels[id].relation_ids ]

Top == stack[Len(stack)]

\* lines 290-292, a member that is a relation of the graph: recurse into it.
\* The loop visits the members of a frozenset, in no order the code chooses.
Descend ==
    /\ rpc = "running"
    /\ \E c \in Top.todo :
        /\ c \in KnownRelations(rels, Top.todo)
        /\ stack' = [ stack EXCEPT ![Len(stack)].todo = @ \ { c } ]
                      \o << NewFrame(c, ChildDepth(Top.depth)) >>
        /\ calls' = calls + 1
    /\ UNCHANGED << rels, nodeIds, start, rpc, result, stopsOut >>
    /\ UNCHANGED << normVars, driverVars >>

\* lines 290-291, a member that is no relation of the graph: an int, skipped
SkipUnknown ==
    /\ rpc = "running"
    /\ \E c \in Top.todo :
        /\ c \notin KnownRelations(rels, Top.todo)
        /\ stack' = [ stack EXCEPT ![Len(stack)].todo = @ \ { c } ]
    /\ UNCHANGED << rels, nodeIds, start, rpc, result, stopsOut, calls >>
    /\ UNCHANGED << normVars, driverVars >>

\* lines 288 and 294: return stops, to line 292 of the caller (stops |= ...)
\* or to the caller of all_stop_ids
Return ==
    /\ rpc = "running"
    /\ Top.todo = { }
    /\ IF Len(stack) = 1
       THEN /\ result' = Top.stops
            /\ rpc' = "returned"
            /\ stack' = << >>
       ELSE /\ stack' = [ SubSeq(stack, 1, Len(stack) - 1)
                            EXCEPT ![Len(stack) - 1].stops = @ \cup Top.stops ]
            /\ UNCHANGED << result, rpc >>
    /\ UNCHANGED << rels, nodeIds, start, stopsOut, calls >>
    /\ UNCHANGED << normVars, driverVars >>

\* all_stops (line 314): _lookup_stops over the result of all_stop_ids
LookupStops ==
    /\ rpc = "returned"
    /\ rpc' = "looked_up"
    /\ stopsOut' = lookup_stops(nodeIds, result)
    /\ UNCHANGED << rels, nodeIds, start, stack, result, calls >>
    /\ UNCHANGED << normVars, driverVars >>

(***************************************************************************)
(* The graphs all_stop_ids is run on.                                      *)
(***************************************************************************)
\* The longest cycle of relations and the most relations of an acyclic graph
MaxCycle == 10
MaxDagRels == 3

\* An identifier that no relation has, and the offset of the identifiers that
\* no node has
UnknownRelation == 99
UnknownStopOffset == 100

\* A cycle of k relations, 1 -> 2 -> ... -> k -> 1.  Relation i has the stop
\* i, which is a node, and the stop i + UnknownStopOffset, which is none; with
\* dangling, every relation also has a member that is no relation.
CycleGraph(k, dangling) ==
    [ i \in 1 .. k |->
        [ stop_ids |-> { i, i + UnknownStopOffset },
          relation_ids |-> { (i % k) + 1 }
                           \cup (IF dangling THEN { UnknownRelation } ELSE { }) ] ]

IsCycleGraph(g) == \E k \in 1 .. MaxCycle, d \in BOOLEAN : g = CycleGraph(k, d)

\* The graphs of n relations without a cycle: the members of relation i are
\* relations of larger identifier and, possibly, one that is no relation.
DagGraphs(n) ==
    { g \in [ 1 .. n -> [ stop_ids : { { } }, relation_ids : SUBSET ((1 .. n) \cup { UnknownRelation }) ] ] :
        \A i \in 1 .. n : \A c \in g[i].relation_ids : c > i } 

WithStops(g) ==
    [ i \in DOMAIN g |->
        [ stop_ids |-> { i, i + UnknownStopOffset },
          relation_ids |-> g[i].relation_ids ] ]

ResolverGraphs ==
    { CycleGraph(k, d) : k \in 1 .. MaxCycle, d \in BOOLEAN }
    \cup { WithStops(g) : g \in DagGraphs(MaxDagRels) }

ResolverInit ==
    /\ rels \in ResolverGraphs
    /\ nodeIds = DOMAIN rels
    /\ start \in DOMAIN rels
    /\ stack = << NewFrame(start, 0) >>
    /\ rpc = "running"
    /\ result = { }
    /\ stopsOut = { }
    /\ calls = 1

ResolverNext ==
    \/ Descend
    \/ SkipUnknown
    \/ Return
    \/ LookupStops

(***************************************************************************)
(* The inputs of read_osmdata (lines 480-591): the OSM database, the       *)
(* operators and the rows of the SFCardFan file.                           *)
(***************************************************************************)
\* Texts of the inputs: 'JR East', 'JR東日本', '中央', '渋谷', 'suica_rail'
\* is the source tag of line 498
JR_EAST == << "J", "R", " ", "E", "a", "s", "t" >>
JR_EAST_JA == << "J", "R", "U6771", "U65E5", "U672C" >>
CHUO == << "U4E2D", "U592E" >>
SHIBUYA == << "U6E0B", "U8C37" >>
SUICA_RAIL == "suica_rail"

\* OsmNode (lines 214-235): the nodes 3 and 5 are both named '新宿', the node
\* 7 is named '渋谷'; no node has the identifier 8.
DriverNodes ==
    (3 :> [ osm_id |-> 3, name_ja |-> SHINJUKU ])
    @@ (5 :> [ osm_id |-> 5, name_ja |-> SHINJUKU ])
    @@ (7 :> [ osm_id |-> 7, name_ja |-> SHIBUYA ])

\* OsmRelation (lines 244-279)
Relation(id, rm, r, name, op_en, op_ja, stops, members) ==
    [ osm_id |-> id, route_master |-> rm, route |-> r, name_ja |-> name,
      operator_en |-> op_en, operator_ja |-> op_ja,
      stop_ids |-> stops, relation_ids |-> members ]

\* OsmDatabase (lines 394-411).  order is the order of the relations in the
\* document, which is the order db.relations.values() visits them in.
\*   10  route master '山手線' of the route 21 and of a relation 99 that the
\*       document does not hold (only with master)
\*   21  route '山手線' with the stops s1, operated by 'JR East'
\*   22  route 'JR山手線' with the stops s2 and no operator tag
\*   30  route '中央本線' with the stops 3 and 7, operator:ja only
\*   40  route with no name tag (only with unnamed)
DriverDb(s1, s2, master, unnamed) ==
    LET all ==
            (10 :> Relation(10, TRUE, FALSE, YAMANOTE \o LINE, None, None, { }, { 21, 99 }))
            @@ (21 :> Relation(21, FALSE, TRUE, YAMANOTE \o LINE, JR_EAST, JR_EAST_JA, s1, { }))
            @@ (22 :> Relation(22, FALSE, TRUE, << "J", "R" >> \o YAMANOTE \o LINE, None, None, s2, { }))
            @@ (30 :> Relation(30, FALSE, TRUE, CHUO \o MAIN_LINE, None, CHUO, { 3, 7 }, { }))
            @@ (40 :> Relation(40, FALSE, TRUE, None, None, None, { 7 }, { }))
        order == (IF master THEN << 10 >> ELSE << >>) \o << 21, 22, 30 >>
                 \o (IF unnamed THEN << 40 >> ELSE << >>)
    IN  [ nodes |-> DriverNodes,
          order |-> order,
          relations |-> [ id \in ListItems(order) |-> all[id] ] ]

\* The database of the scenario of the Yamanote line: one route '山手線' with
\* the one stop '新宿'
ScenarioDb ==
    [ nodes |-> (5 :> [ osm_id |-> 5, name_ja |-> SHINJUKU ]),
      order |-> << 21 >>,
      relations |-> (21 :> Relation(21, FALSE, TRUE, YAMANOTE \o LINE, JR_EAST, JR_EAST_JA, { 5 }, { })) ]

DriverDbs ==
    { DriverDb(s1, s2, m, u) :
        s1 \in { { 5 }, { 3, 5 }, { 7, 8 } }, s2 \in { { 3 }, { 5, 7 } },
        m \in BOOLEAN, u \in BOOLEAN }
    \cup { ScenarioDb }

\* Operators._name_dict (lines 466-477): 'JR East' under both its names
OperatorsDb ==
    (JR_EAST :> [ name_en |-> JR_EAST, name_ja |-> JR_EAST_JA ])
    @@ (JR_EAST_JA :> [ name_en |-> JR_EAST, name_ja |-> JR_EAST_JA ])

\* get_operator (lines 476-477)
get_operator(name) ==
    IF name \in DOMAIN OperatorsDb THEN OperatorsDb[name] ELSE NoneRecord

\* The rows of the SFCardFan file: the columns the loop reads
Row(src, company, line, station) ==
    [ src |-> src, company_name |-> company, line_name |-> line, station_name |-> station ]

RowCompanies == { JR_EAST, ORDINARY, IGNORED_WORDS_EXACT[5] }
RowLines ==
    { << "J", "R" >> \o YAMANOTE \o LINE, YAMANOTE \o LINE, CHUO \o MAIN_LINE,
      ORDINARY, IGNORED_WORDS_EXACT[3] \o LINE, IGNORED_WORDS[2] }
RowStations ==
    { SHINJUKU \o STATION, SHIBUYA \o INSIDE_STATION, ORDINARY,
      IGNORED_WORDS[10] \o STATION }

Rows ==
    { Row(SUICA_RAIL, c, l, s) : c \in RowCompanies, l \in RowLines, s \in RowStations }
    \cup { Row("suica_bus", JR_EAST, l, SHINJUKU \o STATION) :
             l \in { YAMANOTE \o LINE, ORDINARY } }

(***************************************************************************)
(* The loop of read_osmdata (lines 492-587).                               *)
(*   db                  osm_db                                            *)
(*   last_company, last_line, last_rms, last_operator_info                 *)
(*                       the locals of lines 492-495; last_rms is the list *)
(*                       of the osm_id of its relations                    *)
(*   row                 the row of the last iteration (NoneRecord before)       *)
(*   company_name, line_name, station_name                                 *)
(*                       the locals of lines 503-505 (None when not set)   *)
(*   outcome             how the last iteration ended: "start" before the  *)
(*                       first, "continue500", "continue511",              *)
(*                       "continue515", "continue557" for the continue of  *)
(*                       that line, "printed" for a row that reached line  *)
(*                       578, "ValueError" for the raise of line 537 and   *)
(*                       "AttributeError" for name_matches raising         *)
(*   emitted             what lines 578-587 printed: the relation, the     *)
(*                       operator and the station (NoneRecord when nothing)      *)
(*   scanned             whether the iteration ran the scan of lines       *)
(*                       526-529                                           *)
(***************************************************************************)
memoVars == << last_company, last_line, last_rms, last_operator_info >>

\* lines 492-495: the four locals are None before the first row
DriverInit ==
    /\ db \in DriverDbs
    /\ last_company = None
    /\ last_line = None
    /\ last_rms = NoneIds
    /\ last_operator_info = NoneRecord
    /\ row = NoneRecord
    /\ company_name = None
    /\ line_name = None
    /\ station_name = None
    /\ outcome = "start"
    /\ emitted = NoneRecord
    /\ scanned = FALSE

\* A variant of the loop that goes on to the next row after a raise
Running_always == TRUE

\* The loop runs until a raise ends read_osmdata
Running == outcome \notin { "ValueError", "AttributeError" }

\* line 507: ' '.join([company_name, line_name, station_name])
JoinNames(c, l, s) == c \o << " " >> \o l \o << " " >> \o s

\* line 509
HasIgnoredWord(c, l, s) ==
    \E k \in 1 .. Len(IGNORED_WORDS) : Contains(JoinNames(c, l, s), IGNORED_WORDS[k])

\* A variant of lines 512-513 that looks at the name of the station only
HasIgnoredWordExact_station(c, l, s) ==
    \E k \in 1 .. Len(IGNORED_WORDS_EXACT) : IGNORED_WORDS_EXACT[k] = s

\* lines 512-513
HasIgnoredWordExact(c, l, s) ==
    \E k \in 1 .. Len(IGNORED_WORDS_EXACT) : IGNORED_WORDS_EXACT[k] \in { c, l, s }

\* A variant of line 521 that compares the name of the line only
MemoHit_line(c, l) == last_line = l

\* line 521
MemoHit(c, l) == last_company = c /\ last_line = l

\* route_masters() and routes() (lines 418-422), in the order of the document
RouteMasters(d) == SelectSeq(d.order, LAMBDA id : d.relations[id].route_master)
Routes(d) == SelectSeq(d.order, LAMBDA id : d.relations[id].route)

\* lines 526-529: the relations of both lists that name_matches accepts;
\* raised when name_matches raises on one of them
ScanRelations(d, l) ==
    LET scannedIds == RouteMasters(d) \o Routes(d)
    IN  [ raised |-> \E k \in 1 .. Len(scannedIds) :
                        name_matches(d.relations[scannedIds[k]].name_ja, l) = "AttributeError",
          rms |-> SelectSeq(scannedIds,
                            LAMBDA id : name_matches(d.relations[id].name_ja, l) = "True") ]

\* A set of identifiers as a list, in ascending order
RECURSIVE Ascending(_)
Ascending(S) ==
    IF S = { } THEN << >>
    ELSE LET m == CHOOSE x \in S : \A y \in S : x <= y
         IN  << m >> \o Ascending(S \ { m })

\* lines 546-549: the stops named station_name of every relation of rms, in
\* the order of rms.  all_stops visits a set; the order within one relation
\* has no effect after the sort of line 566.
RECURSIVE StationsOf(_, _, _, _)
StationsOf(d, rms, s, k) ==
    IF k > Len(rms) THEN << >>
    ELSE Ascending({ n \in all_stops(d.relations, DOMAIN d.nodes, rms[k]) :
                       d.nodes[n].name_ja = s })
         \o StationsOf(d, rms, s, k + 1)

\* A variant of PickStation without the sort of line 566
PickStation_unsorted(stations) == stations[1]

\* lines 566-567: stations.sort(key=lambda s: s.osm_id); stations[0]
PickStation(stations) == SortSeq(stations, LAMBDA a, b : a < b)[1]

\* line 570: the relations of rms whose all_stop_ids holds the station
OwnersOf(d, rms, station) ==
    SelectSeq(rms, LAMBDA id : station \in all_stop_ids(d.relations, id, 0))

\* lines 571-574: the operator of the record
OperatorOf(d, operator_info, rm, c) ==
    IF operator_info = NoneRecord
    THEN [ name_en |-> d.relations[rm].operator_en,
           name_ja |-> IF d.relations[rm].operator_ja \in { None, << >> }
                       THEN c ELSE d.relations[rm].operator_ja ]
    ELSE operator_info

(***************************************************************************)
(* The loop calls the pure functions above on the rows and on the database.*)
(* Their results on the inputs of Rows and DriverDbs are tabulated here,   *)
(* once, and the actions of the loop read the tables.                      *)
(***************************************************************************)
\* line 504 and line 505 on the names of Rows
CleanedLines == [ x \in RowLines |-> clean_sf_line(x) ]
CleanedStations == [ x \in RowStations |-> clean_sf_station(x) ]

\* lines 503-505: the names of a row
RowCompany(r) == r.company_name
RowLine(r) == CleanedLines[r.line_name]
RowStation(r) == CleanedStations[r.station_name]

\* lines 507-515 on the rows of Rows
RowFilters ==
    [ r \in Rows |->
        [ word |-> HasIgnoredWord(RowCompany(r), RowLine(r), RowStation(r)),
          exact |-> HasIgnoredWordExact(RowCompany(r), RowLine(r), RowStation(r)) ] ]

\* lines 498-515: the row is of the rail source and no filter skips it
PassesFilters(r) ==
    /\ r.src = SUICA_RAIL
    /\ ~RowFilters[r].word
    /\ ~RowFilters[r].exact

\* lines 526-529 on the databases and the line names of Rows
Scans ==
    [ d \in DriverDbs |->
        [ l \in { CleanedLines[x] : x \in RowLines } |-> ScanRelations(d, l) ] ]

\* lines 546-549 on the lists of relations a scan returns
Stations ==
    [ d \in DriverDbs |->
        [ rms \in { Scans[d][l].rms : l \in DOMAIN Scans[d] } |->
            [ s \in { CleanedStations[x] : x \in RowStations } |->
                StationsOf(d, rms, s, 1) ] ] ]

\* lines 521-529: rms of the row, from the memo or from a scan
RmsOf(r) ==
    IF MemoHit(RowCompany(r), RowLine(r))
    THEN [ raised |-> FALSE, rms |-> last_rms ]
    ELSE Scans[db][RowLine(r)]

\* lines 546-549: stations of the row
StationsOfRow(r) == Stations[db][RmsOf(r).rms][RowStation(r)]

\* lines 523 and 542: operator_info of the row
OperatorInfoOf(r) ==
    IF MemoHit(RowCompany(r), RowLine(r)) THEN last_operator_info
    ELSE get_operator(RowCompany(r))

\* What every iteration that reaches line 503 sets
ReadNames(r) ==
    /\ row' = r
    /\ company_name' = RowCompany(r)
    /\ line_name' = RowLine(r)
    /\ station_name' = RowStation(r)

\* line 498: the row is not of the rail source
RowOtherSource ==
    /\ Running
    /\ \E r \in Rows :
        /\ r.src # SUICA_RAIL
        /\ row' = r
        /\ company_name' = None /\ line_name' = None /\ station_name' = None
        /\ outcome' = "continue500"
        /\ emitted' = NoneRecord
        /\ scanned' = FALSE
        /\ UNCHANGED << db, last_company, last_line, last_rms, last_operator_info >>
        /\ UNCHANGED << normVars, resolverVars >>

\* lines 498-511: a word of IGNORED_WORDS is in the names
RowIgnoredWord ==
    /\ Running
    /\ \E r \in Rows :
        /\ r.src = SUICA_RAIL
        /\ RowFilters[r].word
        /\ ReadNames(r)
        /\ outcome' = "continue511"
        /\ emitted' = NoneRecord
        /\ scanned' = FALSE
        /\ UNCHANGED << db, last_company, last_line, last_rms, last_operator_info >>
        /\ UNCHANGED << normVars, resolverVars >>

\* lines 498-515: one of the names is a word of IGNORED_WORDS_EXACT
RowIgnoredWordExact ==
    /\ Running
    /\ \E r \in Rows :
        /\ r.src = SUICA_RAIL
        /\ ~RowFilters[r].word
        /\ RowFilters[r].exact
        /\ ReadNames(r)
        /\ outcome' = "continue515"
        /\ emitted' = NoneRecord
        /\ scanned' = FALSE
        /\ UNCHANGED << db, last_company, last_line, last_rms, last_operator_info >>
        /\ UNCHANGED << normVars, resolverVars >>

\* lines 498-529: name_matches raises inside the scan, which ends read_osmdata
RowScanRaises ==
    /\ Running
    /\ \E r \in Rows :
        /\ PassesFilters(r)
        /\ RmsOf(r).raised
        /\ ReadNames(r)
        /\ outcome' = "AttributeError"
        /\ emitted' = NoneRecord
        /\ scanned' = TRUE
        /\ UNCHANGED << db, last_company, last_line, last_rms, last_operator_info >>
        /\ UNCHANGED << normVars, resolverVars >>

\* lines 498-537: the scan finds no relation, raise ValueError
RowNoRouteMaster ==
    /\ Running
    /\ \E r \in Rows :
        /\ PassesFilters(r)
        /\ ~RmsOf(r).raised
        /\ RmsOf(r).rms = << >>
        /\ ReadNames(r)
        /\ outcome' = "ValueError"
        /\ emitted' = NoneRecord
        /\ scanned' = TRUE
        /\ UNCHANGED << db, last_company, last_line, last_rms, last_operator_info >>
        /\ UNCHANGED << normVars, resolverVars >>

\* lines 498-557: no stop of rms has the name of the station, continue
RowStationNotFound ==
    /\ Running
    /\ \E r \in Rows :
        /\ PassesFilters(r)
        /\ ~RmsOf(r).raised
        /\ RmsOf(r).rms # << >>
        /\ StationsOfRow(r) = << >>
        /\ ReadNames(r)
        /\ outcome' = "continue557"
        /\ emitted' = NoneRecord
        /\ scanned' = ~MemoHit(RowCompany(r), RowLine(r))
        /\ last_rms' = RmsOf(r).rms
        /\ last_company' = RowCompany(r)
        /\ last_line' = RowLine(r)
        /\ last_operator_info' = OperatorInfoOf(r)
        /\ db' = db
        /\ UNCHANGED << normVars, resolverVars >>

\* lines 498-587: the station is found and the record is printed
RowPrinted ==
    /\ Running
    /\ \E r \in Rows :
        /\ PassesFilters(r)
        /\ ~RmsOf(r).raised
        /\ RmsOf(r).rms # << >>
        /\ StationsOfRow(r) # << >>
        /\ LET rms == RmsOf(r).rms
               station == PickStation(StationsOfRow(r))
               rm == OwnersOf(db, rms, station)[1]
               info == OperatorOf(db, OperatorInfoOf(r), rm, RowCompany(r))
           IN  /\ ReadNames(r)
               /\ outcome' = "printed"
               /\ emitted' = [ rm |-> rm, operator |-> info, station |-> station ]
               /\ scanned' = ~MemoHit(RowCompany(r), RowLine(r))
               /\ last_rms' = rms
               /\ last_company' = RowCompany(r)
               /\ last_line' = RowLine(r)
               /\ last_operator_info' = info
               /\ db' = db
               /\ UNCHANGED << normVars, resolverVars >>

DriverNext ==
    \/ RowOtherSource
    \/ RowIgnoredWord
    \/ RowIgnoredWordExact
    \/ RowScanRaises
    \/ RowNoRouteMaster
    \/ RowStationNotFound
    \/ RowPrinted

(***************************************************************************)
(* The specifications.                                                     *)
(***************************************************************************)
NormIdle ==
    /\ op = "idle"
    /\ arg = Unset
    /\ argName = Unset
    /\ out1 = Unset
    /\ out2 = Unset

ResolverIdle ==
    /\ rels = << >>
    /\ nodeIds = { }
    /\ start = 0
    /\ stack = << >>
    /\ rpc = "idle"
    /\ result = { }
    /\ stopsOut = { }
    /\ calls = 0

DriverIdle ==
    /\ db = NoneRecord
    /\ last_company = None
    /\ last_line = None
    /\ last_rms = NoneIds
    /\ last_operator_info = NoneRecord
    /\ row = NoneRecord
    /\ company_name = None
    /\ line_name = None
    /\ station_name = None
    /\ outcome = "idle"
    /\ emitted = NoneRecord
    /\ scanned = FALSE

\* The pure functions, each on every input of its input set
NormSpecInit == NormInit /\ ResolverIdle /\ DriverIdle
NormSpec == NormSpecInit /\ [][NormNext]_vars

\* all_stop_ids and all_stops on the graphs of ResolverGraphs
ResolverSpecInit == ResolverInit /\ NormIdle /\ DriverIdle
ResolverSpec == ResolverSpecInit /\ [][ResolverNext]_vars

\* The loop of read_osmdata over any sequence of the rows of Rows
Init == DriverInit /\ NormIdle /\ ResolverIdle
Spec == Init /\ [][DriverNext]_vars

(***************************************************************************)
(* Claims about the pure functions, checked under NormSpec.                *)
(***************************************************************************)
\* '東海道本線', a key of ALT_NAMES (line 45)
TOKAIDO_MAIN_LINE == << "U6771", "U6D77", "U9053", "U672C", "U7DDA" >>

\* C2, as stated: a transaction line name equal to an alternate registered
\* under '東海道本線', once normalised by clean_sf_line and passed to
\* name_matches, matches a relation whose local name is '東海道本線'.
C2_AlternateMatchesCanonical ==
    ( /\ op = "clean_and_match"
      /\ argName = TOKAIDO_MAIN_LINE
      /\ InList(arg, ALT_NAMES[TOKAIDO_MAIN_LINE]) )
    => out2 = << "True" >>

\* C2, as amended: the table is read from the normalised name to the relation.
\* A relation whose local name is an alternate registered under '東海道本線'
\* matches the normalised name '東海道本線', at the exception-table rule
\* (line 323).
C2_CanonicalMatchesAlternate ==
    ( /\ op = "name_matches"
      /\ arg = TOKAIDO_MAIN_LINE
      /\ InList(argName, ALT_NAMES[TOKAIDO_MAIN_LINE]) )
    => ( out1 = "True" /\ out2 = << "L323" >> )

\* A relation named 'JR東北本線' was matched against '東海道本線'
C2_Witness ==
    /\ op = "name_matches"
    /\ arg = TOKAIDO_MAIN_LINE
    /\ argName = ALT_NAMES[TOKAIDO_MAIN_LINE][1]
    /\ out1 = "True"

\* C3, as stated: clean_sf_line is idempotent,
\* clean_sf_line(clean_sf_line(x)) = clean_sf_line(x) for every x.
C3_Idempotent == op = "clean_sf_line_twice" => out2 = out1

\* The text starts with an entry of IGNORED_LINE_PREFIXES
HasLinePrefix(t) ==
    \E k \in 1 .. Len(IGNORED_LINE_PREFIXES) : StartsWith(t, IGNORED_LINE_PREFIXES[k])

\* The text ends with LINE, HON or RAILWAY, that is with an entry of
\* IGNORED_LINE_SUFFIXES other than RAPID_LINE
HasStrippableSuffix(t) ==
    EndsWith(t, LINE) \/ EndsWith(t, HON) \/ EndsWith(t, RAILWAY)

\* C3, as amended: a second application of clean_sf_line changes nothing
\* exactly when the first result neither starts with a brand prefix nor ends
\* with LINE, HON or RAILWAY; otherwise it strips again.
C3_IdempotentWhenClean ==
    op = "clean_sf_line_twice"
    => ( out2 = out1 <=> ( ~HasLinePrefix(out1) /\ ~HasStrippableSuffix(out1) ) )

\* A name that lost a prefix and a suffix and is then left alone
C3_Witness ==
    /\ op = "clean_sf_line_twice"
    /\ arg = << "J", "R" >> \o ORDINARY \o MAIN_LINE
    /\ out1 = ORDINARY
    /\ out2 = out1

\* C9, as stated: the result differs from the marker-ensured, junk-free input
\* by the removal of at most one entry of the prefix list at the start and at
\* most one entry of the suffix list at the end.
C9_AtMostOneAffix ==
    op = "clean_sf_line"
    => \E p \in ListItems(IGNORED_LINE_PREFIXES) \cup { << >> },
          s \in ListItems(IGNORED_LINE_SUFFIXES) \cup { << >> } :
           RemoveJunk(EnsureLine(arg)) = p \o out1 \o s

\* The entries of list l at the indices ks, concatenated in list order
RECURSIVE ConcatAt(_, _, _)
ConcatAt(l, ks, k) ==
    IF k > Len(l) THEN << >>
    ELSE (IF k \in ks THEN l[k] ELSE << >>) \o ConcatAt(l, ks, k + 1)

\* The same, in reverse list order
RECURSIVE ConcatAtReversed(_, _, _)
ConcatAtReversed(l, ks, k) ==
    IF k > Len(l) THEN << >>
    ELSE ConcatAtReversed(l, ks, k + 1) \o (IF k \in ks THEN l[k] ELSE << >>)

\* C9, as amended: every entry of the prefix list is stripped at most once, in
\* list order, and so is every entry of the suffix list: the marker-ensured,
\* junk-free input is the result with some entries of the prefix list, each
\* once and in list order, before it, and some entries of the suffix list,
\* each once and the first stripped last, after it.
C9_EachAffixAtMostOnce ==
    op = "clean_sf_line"
    => \E ps \in SUBSET (1 .. Len(IGNORED_LINE_PREFIXES)),
          ss \in SUBSET (1 .. Len(IGNORED_LINE_SUFFIXES)) :
           RemoveJunk(EnsureLine(arg))
             = ConcatAt(IGNORED_LINE_PREFIXES, ps, 1) \o out1
                 \o ConcatAtReversed(IGNORED_LINE_SUFFIXES, ss, 1)

\* 'JR JR山' lost both prefixes, and the marker that was appended to it
C9_Witness ==
    /\ op = "clean_sf_line"
    /\ arg = << "J", "R", " ", "J", "R" >> \o ORDINARY
    /\ out1 = ORDINARY

\* The four rules of C10 for a relation of local name n and a normalised name
\* v; a relation with no name tag matches nothing.
C10_Cascade(n, v) ==
    /\ n # None
    /\ \/ v = n
       \/ (v \in DOMAIN ALT_NAMES /\ InList(n, ALT_NAMES[v]))
       \/ (n \in DOMAIN ALT_NAMES /\ InList(v, ALT_NAMES[n]))
       \/ \E k \in 1 .. Len(IGNORED_LINE_PREFIXES) :
              LET p == IGNORED_LINE_PREFIXES[k]
              IN  \/ StartsWith(v, p) /\ DropFirst(v, Len(p)) = n
                  \/ StartsWith(n, p) /\ DropFirst(n, Len(p)) = v
       \/ \E k \in 1 .. Len(IGNORED_LINE_SUFFIXES) :
              LET s == IGNORED_LINE_SUFFIXES[k]
              IN  EndsWith(n, s) /\ DropLast(n, Len(s)) = v

\* C10: name_matches returns true exactly when one of the four rules applies,
\* returns false in every other case and never raises.
C10_NameMatchesIsCascade ==
    op = "name_matches"
    => out1 = (IF C10_Cascade(argName, arg) THEN "True" ELSE "False")

(***************************************************************************)
(* Properties of all_stop_ids and all_stops, checked under ResolverSpec.   *)
(***************************************************************************)
\* all_stop_ids has returned
Returned == rpc \in { "returned", "looked_up" }

\* The relations of g reachable from the relations of S through members that
\* are relations of g
RECURSIVE Reachable(_, _)
Reachable(g, S) ==
    LET T == S \cup UNION { g[i].relation_ids \cap DOMAIN g : i \in S }
    IN  IF T = S THEN S ELSE Reachable(g, T)

DirectStops(g, S) == UNION { g[i].stop_ids : i \in S }

\* Some relation reachable from start has a member that is no relation
HasDangling ==
    \E i \in Reachable(rels, { start }) : ~(rels[i].relation_ids \subseteq DOMAIN rels)

\* C5: on a cycle of k <= 10 relations, all_stop_ids called on any relation of
\* the cycle terminates (the stack of calls never holds more than MAX_DEPTH + 1
\* frames, no more than MAX_DEPTH + 1 calls are made, and a running call can
\* always take a step) and returns exactly the union of the stop_ids of the
\* relations of the cycle.
C5_CycleTerminatesWithUnion ==
    (IsCycleGraph(rels) /\ Cardinality(DOMAIN rels) <= MAX_DEPTH) =>
        /\ Len(stack) <= MAX_DEPTH + 1
        /\ calls <= MAX_DEPTH + 1
        /\ rpc = "running" => Len(stack) >= 1
        /\ Returned => result = DirectStops(rels, DOMAIN rels)

\* A cycle of MAX_DEPTH relations: the call returned the stops of all of them,
\* after going once around the cycle and back to the relation it started on
C5_Witness ==
    /\ rels = CycleGraph(MAX_DEPTH, FALSE)
    /\ rpc = "returned"
    /\ calls = MAX_DEPTH + 1
    /\ result = DirectStops(rels, DOMAIN rels)
    /\ Cardinality(result) = 2 * MAX_DEPTH

\* C6: a member of relation_ids that is no relation of the graph is skipped:
\* all_stop_ids returns (there is no state in which it raised) the stop_ids of
\* the relation united with those of the relations reachable through members
\* that exist, and all_stops yields exactly the stops among them that are
\* nodes of the graph.
C6_DanglingTolerated ==
    /\ rpc \in { "running", "returned", "looked_up" }
    /\ (Returned /\ Cardinality(DOMAIN rels) <= MAX_DEPTH + 1) =>
          /\ result = DirectStops(rels, Reachable(rels, { start }))
          /\ result = rels[start].stop_ids \cup
                      UNION { all_stop_ids(rels, c, 1) :
                                c \in rels[start].relation_ids \cap DOMAIN rels }
    /\ rpc = "looked_up" =>
          /\ stopsOut \subseteq nodeIds
          /\ stopsOut = result \cap nodeIds

\* The relation has a member that is no relation and one that is; the stops of
\* both relations were returned, and all_stops dropped those that are no nodes
C6_Witness ==
    /\ rpc = "looked_up"
    /\ HasDangling
    /\ UnknownRelation \in rels[start].relation_ids
    /\ rels[start].relation_ids \cap DOMAIN rels # { }
    /\ ~IsCycleGraph(rels)
    /\ Cardinality(Reachable(rels, { start })) >= 2
    /\ result = DirectStops(rels, Reachable(rels, { start }))
    /\ stopsOut # result
    /\ stopsOut = Reachable(rels, { start })

(***************************************************************************)
(* Properties of the loop of read_osmdata, checked under Spec.             *)
(***************************************************************************)
\* The row of the scenario: 'JR East', 'JR山手線', '新宿駅'
ScenarioRow ==
    Row(SUICA_RAIL, JR_EAST, << "J", "R" >> \o YAMANOTE \o LINE, SHINJUKU \o STATION)

\* The stops of the relations of rms that are nodes named s
NamedStops(d, rms, s) ==
    { n \in UNION { all_stops(d.relations, DOMAIN d.nodes, id) : id \in ListItems(rms) } :
        d.nodes[n].name_ja = s }

SetMin(S) == CHOOSE x \in S : \A y \in S : x <= y

\* The database has a relation named '山手線' with a stop named '新宿'
ScenarioGraph(d) ==
    \E id \in DOMAIN d.relations :
        /\ d.relations[id].name_ja = YAMANOTE \o LINE
        /\ NamedStops(d, << id >>, SHINJUKU) # { }

\* Every relation of the database has a name
AllNamed(d) == \A id \in DOMAIN d.relations : d.relations[id].name_ja # None

Unfiltered(o) == o \in { "printed", "continue557", "ValueError", "AttributeError" }

\* C4 as stated: a row with the pair of the memo does not scan and keeps
\* last_rms; any other row scans and overwrites the memo with its pair
C4_MemoAlwaysOverwritten ==
    [][ Unfiltered(outcome') =>
          LET hit == last_company = company_name' /\ last_line = line_name'
          IN  /\ hit => ~scanned' /\ last_rms' = last_rms
              /\ ~hit => /\ scanned'
                         /\ last_company' = company_name'
                         /\ last_line' = line_name' ]_vars

\* C4: an unfiltered row whose company_name and line_name equal last_company
\* and last_line does not scan, keeps last_company, last_line and last_rms,
\* raises nothing, and has its station looked up by its own station_name in
\* the stops of last_rms.  An unfiltered row with another pair always scans;
\* it overwrites last_company, last_line and last_rms with its own only when
\* the scan finds a relation, and leaves the memo as it was when the scan
\* finds none (ValueError) or name_matches raises.
C4_MemoHitAndMiss ==
    [][ Unfiltered(outcome') =>
          LET hit == last_company = company_name' /\ last_line = line_name'
              found == NamedStops(db, last_rms, station_name')
              scan == ScanRelations(db, line_name')
          IN  /\ hit =>
                    /\ ~scanned'
                    /\ outcome' \in { "printed", "continue557" }
                    /\ last_rms' = last_rms
                    /\ last_company' = last_company
                    /\ last_line' = last_line
                    /\ outcome' = "printed" =>
                          found # { } /\ emitted'.station = SetMin(found)
                    /\ outcome' = "continue557" => found = { }
              /\ ~hit =>
                    /\ scanned'
                    /\ outcome' \in { "printed", "continue557" } =>
                          /\ ~scan.raised /\ scan.rms # << >>
                          /\ last_company' = company_name'
                          /\ last_line' = line_name'
                          /\ last_rms' = scan.rms
                    /\ outcome' = "ValueError" =>
                          /\ ~scan.raised /\ scan.rms = << >>
                          /\ UNCHANGED memoVars
                    /\ outcome' = "AttributeError" =>
                          /\ scan.raised
                          /\ UNCHANGED memoVars ]_vars

\* A row with the pair of the memo was printed without a scan, with the
\* station '渋谷' of its own name, on the relations of the line '山手'
C4_Witness ==
    /\ outcome = "printed"
    /\ ~scanned
    /\ last_company = company_name
    /\ last_line = YAMANOTE
    /\ station_name = SHIBUYA
    /\ emitted.station = 7
    /\ Len(last_rms) >= 2

\* C7: the station of a printed record is the node of the smallest osm_id
\* among the stops, of all relations of rms, whose name_ja is station_name;
\* the relation of the record is the first of rms whose all_stop_ids holds
\* that osm_id, and there is always one.
C7_SmallestStationFirstOwner ==
    outcome = "printed" =>
        LET found == NamedStops(db, last_rms, station_name)
            owners == { k \in 1 .. Len(last_rms) :
                          emitted.station \in all_stop_ids(db.relations, last_rms[k], 0) }
        IN  /\ found # { }
            /\ emitted.station = SetMin(found)
            /\ owners # { }
            /\ emitted.rm = last_rms[SetMin(owners)]

\* The station '新宿' is the node 5 in the first relation of rms and the node
\* 3 in a later one: the record has the node 3 and the later relation
C7_Witness ==
    /\ outcome = "printed"
    /\ station_name = SHINJUKU
    /\ { 3, 5 } \subseteq NamedStops(db, last_rms, station_name)
    /\ 5 \in all_stop_ids(db.relations, last_rms[1], 0)
    /\ 3 \notin all_stop_ids(db.relations, last_rms[1], 0)
    /\ emitted.station = 3
    /\ emitted.rm # last_rms[1]

\* The rows that lines 498-515 are to skip: not of the rail source, or a word
\* of IGNORED_WORDS in one of the three names, or one of the three names a
\* word of IGNORED_WORDS_EXACT
IsFilteredRow ==
    [ r \in Rows |->
        \/ r.src # SUICA_RAIL
        \/ LET names == { r.company_name, clean_sf_line(r.line_name),
                          clean_sf_station(r.station_name) }
           IN  \/ \E n \in names, k \in 1 .. Len(IGNORED_WORDS) :
                     Contains(n, IGNORED_WORDS[k])
               \/ \E n \in names, k \in 1 .. Len(IGNORED_WORDS_EXACT) :
                     n = IGNORED_WORDS_EXACT[k] ]

\* C8: a row that is not of the rail source, or has a word of IGNORED_WORDS in
\* its company, normalised line or normalised station, or has one of the three
\* equal to a word of IGNORED_WORDS_EXACT, ends in a continue: nothing is
\* printed, nothing is raised, no scan is made, and last_company, last_line,
\* last_rms and last_operator_info are unchanged.
C8_FilteredRowIsSkipped ==
    [][ IsFilteredRow[row'] =>
          /\ outcome' \in { "continue500", "continue511", "continue515" }
          /\ emitted' = NoneRecord
          /\ ~scanned'
          /\ UNCHANGED memoVars ]_vars

\* A row whose line is a word of IGNORED_WORDS_EXACT, and matches no relation,
\* was skipped after another row had set the memo
C8_Witness ==
    /\ outcome = "continue515"
    /\ line_name = IGNORED_WORDS_EXACT[3]
    /\ ScanRelations(db, line_name).rms = << >>
    /\ last_company # None
    /\ last_line # line_name
    /\ emitted = NoneRecord

\* The raise of line 537 or a raise of name_matches ended read_osmdata
Raised(o) == o \in { "ValueError", "AttributeError" }

\* No route master and no route of the database is matched by the line name
NoRelationMatches(d, l) ==
    \A id \in ListItems(RouteMasters(d) \o Routes(d)) :
        name_matches(d.relations[id].name_ja, l) # "True"

NoMemoRecord(d, c, l, s) ==
    LET rms == ScanRelations(d, l).rms
        station == PickStation(StationsOf(d, rms, s, 1))
        rm == OwnersOf(d, rms, station)[1]
    IN  [ rm |-> rm,
          operator |-> OperatorOf(d, get_operator(c), rm, c),
          station |-> station ]

\* C12: the memo is transparent: the record printed for a row (relation,
\* operator, station) is the record that read_osmdata without the memo prints
\* for it.
C12_MemoTransparent ==
    outcome = "printed" =>
        emitted = NoMemoRecord(db, company_name, line_name, station_name)

====
